---------------------------- MODULE Spec2Model ----------------------------
(***************************************************************************)
(* Identity and session subsystem of koteyye_music_be: the account store   *)
(* (users table), the authentication service (Register, Login, GuestLogin, *)
(* PromoteGuestToUser, GenerateToken, ValidateToken), the OAuth callback   *)
(* (HandleCallback, findOrCreateUser) and the request authentication       *)
(* middleware (AuthMiddleware, OptionalAuthMiddleware).                    *)
(*                                                                         *)
(* Two specifications:                                                     *)
(*   Spec     the account store under the service operations;              *)
(*   SpecTok  the token codec and the middleware under a ticking clock.    *)
(***************************************************************************)
EXTENDS Integers, Sequences, FiniteSets, TLC

VARIABLES
    users,      \* the rows of the users table
    nextID,     \* next value of the users.id SERIAL sequence
    clock,      \* time.Now(), in hours
    registered, \* the credentials and id of the Register call just answered
    last,       \* the result of the last service operation
    tok,        \* SpecTok: the token most recently issued
    obs,        \* SpecTok: what the last ValidateToken / request observed
    calls       \* SpecRace: the calls in progress, one per connection

vars == <<users, nextID, clock, registered, last, tok, obs, calls>>

-----------------------------------------------------------------------------
(* Bounds of the model *)

\* largest id the SERIAL sequence hands out
MaxID == 2

\* last instant of the clock in SpecTok
MaxClock == 25

\* last instant at which SpecTok issues a token
MaxIssue == 1

-----------------------------------------------------------------------------
(* Values *)

\* a NULL column / nil pointer
NULL == "NULL"

Emails == {"a@x.com", "b@x.com"}

Passwords == {"secret1", "secret2"}

Providers == {"google", "yandex"}

ExternalIDs == {"x1", "x2"}

\* token lifetime in hours
TokenTTL == 24

\* the configured signing secret, and a secret an attacker may sign with
JwtSecret == "s3cret"

OtherSecret == "attacker"

\* golang-jwt signing methods: the HMAC family and two that are not
HMACAlgs == {"HS256", "HS384", "HS512"}

Algs == HMACAlgs \cup {"RS256", "none"}

-----------------------------------------------------------------------------
(* bcrypt *)

\* bcrypt.GenerateFromPassword: the stored hash is not the password
BcryptHash(password) == "$2a$10$" \o password

\* bcrypt.CompareHashAndPassword: nil error iff the hash was made of password
\* variant: the stored hash compared with the plain password
CompareHashAndPassword_Plain(hash, password) == hash = password

CompareHashAndPassword(hash, password) == hash = BcryptHash(password)

-----------------------------------------------------------------------------
(* models.User and the users table *)

\* a models.User value as the service builds it before an insert or update
NewUser(email, name, avatarKey, passwordHash, provider, externalID, role) ==
    [id |-> 0, email |-> email, name |-> name, avatarKey |-> avatarKey,
     passwordHash |-> passwordHash, provider |-> provider,
     externalID |-> externalID, role |-> role]

\* the zero models.User (returned beside an error)
NoUser == NewUser(NULL, NULL, NULL, NULL, NULL, NULL, "")

\* an account registered earlier and made administrator by hand, as the
\* deployment guide describes (UPDATE users SET role = 'admin' WHERE email = ...)
AdminRow ==
    [id |-> 1, email |-> "a@x.com", name |-> NULL, avatarKey |-> NULL,
     passwordHash |-> BcryptHash("secret1"), provider |-> "local",
     externalID |-> NULL, role |-> "admin"]

\* CONSTRAINT check_valid_role
ValidRoles == {"user", "admin", "guest"}

\* variant: the email column without UNIQUE
EmailTaken_NoUnique(us, id, email) == FALSE

\* email VARCHAR(255) UNIQUE: another row already holds this non-NULL email
EmailTaken(us, id, email) ==
    email # NULL /\ \E r \in us : r.id # id /\ r.email = email

\* variant: the table without idx_users_provider_external_id
PairTaken_NoIndex(us, id, provider, externalID) == FALSE

\* idx_users_provider_external_id: another row already holds this pair
PairTaken(us, id, provider, externalID) ==
    /\ provider # NULL
    /\ externalID # NULL
    /\ \E r \in us : r.id # id /\ r.provider = provider /\ r.externalID = externalID

\* UserRepository.GetUserByEmail
HasUserByEmail(us, email) == \E r \in us : r.email = email

GetUserByEmail(us, email) == CHOOSE r \in us : r.email = email

\* UserRepository.GetUserByID
HasUserByID(us, id) == \E r \in us : r.id = id

GetUserByID(us, id) == CHOOSE r \in us : r.id = id

\* UserRepository.CreateUser: INSERT ... RETURNING. The sequence value is
\* consumed whether or not the insert passes the constraints.
CreateUser(us, nid, user) ==
    LET row == [user EXCEPT !.id = nid]
        ok  == /\ ~EmailTaken(us, nid, user.email)
               /\ ~PairTaken(us, nid, user.provider, user.externalID)
               /\ user.role \in ValidRoles
    IN  [ok     |-> ok,
         users  |-> IF ok THEN us \cup {row} ELSE us,
         nextID |-> nid + 1,
         user   |-> IF ok THEN row ELSE user]

\* variant: an UPDATE that leaves the role column out
UpdateUser_NoRole(us, user) ==
    LET found == HasUserByID(us, user.id)
        ok    == /\ found
                 /\ ~EmailTaken(us, user.id, user.email)
                 /\ ~PairTaken(us, user.id, user.provider, user.externalID)
        old   == GetUserByID(us, user.id)
        new   == [old EXCEPT !.email = user.email, !.name = user.name,
                             !.avatarKey = user.avatarKey,
                             !.provider = user.provider,
                             !.externalID = user.externalID]
    IN  [ok    |-> ok,
         users |-> IF ok THEN (us \ {old}) \cup {new} ELSE us]

\* UserRepository.UpdateUser: UPDATE users SET email, name, avatar_key,
\* provider, external_id, role WHERE id
UpdateUser(us, user) ==
    LET found == HasUserByID(us, user.id)
        ok    == /\ found
                 /\ ~EmailTaken(us, user.id, user.email)
                 /\ ~PairTaken(us, user.id, user.provider, user.externalID)
                 /\ user.role \in ValidRoles
        old   == GetUserByID(us, user.id)
        new   == [old EXCEPT !.email = user.email, !.name = user.name,
                             !.avatarKey = user.avatarKey,
                             !.provider = user.provider,
                             !.externalID = user.externalID,
                             !.role = user.role]
    IN  [ok    |-> ok,
         users |-> IF ok THEN (us \ {old}) \cup {new} ELSE us]

\* UserRepository.UpdateLastLogin; storeOK = FALSE is a failing Exec. The
\* last_login_at column is written here and read by no operation of the
\* subsystem: the rows of the model carry the columns the operations read.
UpdateLastLogin(us, userID, lastLogin, storeOK) ==
    [ok |-> storeOK /\ HasUserByID(us, userID), users |-> us]

\* variant: an UPDATE that sets the provider and leaves external_id out
LinkOAuthAccount_ProviderOnly(us, userID, provider, externalID, storeOK) ==
    LET ok  == /\ storeOK
               /\ HasUserByID(us, userID)
               /\ ~PairTaken(us, userID, provider, externalID)
        old == GetUserByID(us, userID)
    IN  [ok    |-> ok,
         users |-> IF ok THEN (us \ {old}) \cup {[old EXCEPT !.provider = provider]}
                   ELSE us]

\* UserRepository.LinkOAuthAccount; storeOK = FALSE is a failing Exec
LinkOAuthAccount(us, userID, provider, externalID, storeOK) ==
    LET ok  == /\ storeOK
               /\ HasUserByID(us, userID)
               /\ ~PairTaken(us, userID, provider, externalID)
        old == GetUserByID(us, userID)
    IN  [ok    |-> ok,
         users |-> IF ok THEN (us \ {old}) \cup
                                {[old EXCEPT !.provider = provider,
                                             !.externalID = externalID]}
                   ELSE us]

-----------------------------------------------------------------------------
(* Session tokens *)

\* the signature segment: the MAC of a header and a payload under a key; flip
\* counts the bytes of the segment altered after signing
HMAC(key, alg, claims) == [key |-> key, alg |-> alg, msg |-> claims, flip |-> 0]

NoClaims == [user_id |-> 0, email |-> "", role |-> "", exp |-> 0, iat |-> 0, nbf |-> 0]

\* no token (the "" returned beside an error)
NoToken == [alg |-> "", claims |-> NoClaims, sig |-> HMAC("", "", NoClaims)]

\* AuthService.GenerateToken: the clock reads of one call fall on one instant
GenerateToken(user, now) ==
    LET claims == [user_id |-> user.id,
                   email   |-> IF user.email # NULL THEN user.email ELSE "",
                   role    |-> user.role,
                   exp     |-> now + TokenTTL,
                   iat     |-> now,
                   nbf     |-> now]
    IN  [alg |-> "HS256", claims |-> claims, sig |-> HMAC(JwtSecret, "HS256", claims)]

\* the key function passed to jwt.ParseWithClaims: only HMAC methods get a key
KeyFuncOK(alg) == alg \in HMACAlgs

\* SigningMethod.Verify with the []byte key: the HMAC methods compare MACs; the
\* others refuse a []byte key
MethodVerify(alg, claims, sig, key) ==
    alg \in HMACAlgs /\ sig = HMAC(key, alg, claims)

\* variant: a token still accepted at the instant it expires
ClaimsValid_ThroughExpiry(claims, now) == ~(claims.exp < now) /\ ~(now < claims.nbf)

\* jwt.Validator on the registered claims: exp and nbf against time.Now()
ClaimsValid(claims, now) == now < claims.exp /\ ~(now < claims.nbf)

\* variant: the claims parsed without verifying the signature
ValidateToken_Unverified(tokenString, now) ==
    IF tokenString.alg \in Algs /\ ClaimsValid(tokenString.claims, now)
    THEN [ok |-> TRUE, userID |-> tokenString.claims.user_id,
          role |-> tokenString.claims.role]
    ELSE [ok |-> FALSE, userID |-> 0, role |-> ""]

\* AuthService.ValidateToken
ValidateToken(tokenString, now) ==
    LET wellFormed == tokenString.alg \in Algs
        ok == /\ wellFormed
              /\ KeyFuncOK(tokenString.alg)
              /\ MethodVerify(tokenString.alg, tokenString.claims,
                              tokenString.sig, JwtSecret)
              /\ ClaimsValid(tokenString.claims, now)
    IN  IF ok
        THEN [ok |-> TRUE, userID |-> tokenString.claims.user_id,
              role |-> tokenString.claims.role]
        ELSE [ok |-> FALSE, userID |-> 0, role |-> ""]

-----------------------------------------------------------------------------
(* AuthService *)

\* the soft writes of the store: their failure is logged and the call goes on
SoftWrites == {"link", "lastLogin"}

\* variant: the account registered with the role admin
Register_AsAdmin(us, nid, email, password, now) ==
    IF HasUserByEmail(us, email)
    THEN [ok |-> FALSE, err |-> "user with this email already exists",
          users |-> us, nextID |-> nid, token |-> NoToken, user |-> NoUser]
    ELSE LET user == NewUser(email, NULL, NULL, BcryptHash(password),
                             "local", NULL, "admin")
             c    == CreateUser(us, nid, user)
         IN  IF ~c.ok
             THEN [ok |-> FALSE, err |-> "failed to create user",
                   users |-> c.users, nextID |-> c.nextID,
                   token |-> NoToken, user |-> NoUser]
             ELSE [ok |-> TRUE, err |-> "", users |-> c.users, nextID |-> c.nextID,
                   token |-> GenerateToken(c.user, now), user |-> c.user]

\* AuthService.Register
Register(us, nid, email, password, now) ==
    IF HasUserByEmail(us, email)
    THEN [ok |-> FALSE, err |-> "user with this email already exists",
          users |-> us, nextID |-> nid, token |-> NoToken, user |-> NoUser]
    ELSE LET user == NewUser(email, NULL, NULL, BcryptHash(password),
                             "local", NULL, "user")
             c    == CreateUser(us, nid, user)
         IN  IF ~c.ok
             THEN [ok |-> FALSE, err |-> "failed to create user",
                   users |-> c.users, nextID |-> c.nextID,
                   token |-> NoToken, user |-> NoUser]
             ELSE [ok |-> TRUE, err |-> "", users |-> c.users, nextID |-> c.nextID,
                   token |-> GenerateToken(c.user, now), user |-> c.user]

\* variant: a failed last-login write returned to the caller as an error
Login_HardLastLogin(us, email, password, now, lastLoginOK) ==
    LET failed(err) == [ok |-> FALSE, err |-> err, users |-> us, token |-> NoToken,
                        user |-> NoUser, reached |-> {}, warned |-> {}]
    IN  IF ~HasUserByEmail(us, email)
        THEN failed("invalid email or password")
        ELSE LET user == GetUserByEmail(us, email)
             IN  IF user.passwordHash = NULL
                 THEN failed("user must login via OAuth")
                 ELSE IF ~CompareHashAndPassword(user.passwordHash, password)
                 THEN failed("invalid email or password")
                 ELSE LET token == GenerateToken(user, now)
                          ll    == UpdateLastLogin(us, user.id, now, lastLoginOK)
                      IN  IF ~ll.ok
                          THEN [failed("failed to update last login")
                                  EXCEPT !.reached = {"lastLogin"},
                                         !.warned = {"lastLogin"}]
                          ELSE [ok |-> TRUE, err |-> "", users |-> ll.users,
                                token |-> token, user |-> GetUserByID(ll.users, user.id),
                                reached |-> {"lastLogin"}, warned |-> {}]

\* AuthService.Login
Login(us, email, password, now, lastLoginOK) ==
    LET failed(err) == [ok |-> FALSE, err |-> err, users |-> us, token |-> NoToken,
                        user |-> NoUser, reached |-> {}, warned |-> {}]
    IN  IF ~HasUserByEmail(us, email)
        THEN failed("invalid email or password")
        ELSE LET user == GetUserByEmail(us, email)
             IN  IF user.passwordHash = NULL
                 THEN failed("user must login via OAuth")
                 ELSE IF ~CompareHashAndPassword(user.passwordHash, password)
                 THEN failed("invalid email or password")
                 ELSE LET token == GenerateToken(user, now)
                          ll    == UpdateLastLogin(us, user.id, now, lastLoginOK)
                      IN  \* the account returned is re-read from the store
                          [ok |-> TRUE, err |-> "", users |-> ll.users,
                           token |-> token, user |-> GetUserByID(ll.users, user.id),
                           reached |-> {"lastLogin"},
                           warned |-> IF ll.ok THEN {} ELSE {"lastLogin"}]

\* variant: the guest account stored with the role user
GuestLogin_AsUser(us, nid, now, lastLoginOK) ==
    LET user == NewUser(NULL, NULL, NULL, NULL, NULL, NULL, "user")
        c    == CreateUser(us, nid, user)
    IN  IF ~c.ok
        THEN [ok |-> FALSE, err |-> "failed to create guest user", users |-> c.users,
              nextID |-> c.nextID, token |-> NoToken, user |-> NoUser,
              reached |-> {}, warned |-> {}]
        ELSE LET ll == UpdateLastLogin(c.users, c.user.id, now, lastLoginOK)
             IN  [ok |-> TRUE, err |-> "", users |-> ll.users, nextID |-> c.nextID,
                  token |-> GenerateToken(c.user, now), user |-> c.user,
                  reached |-> {"lastLogin"},
                  warned |-> IF ll.ok THEN {} ELSE {"lastLogin"}]

\* AuthService.GuestLogin
GuestLogin(us, nid, now, lastLoginOK) ==
    LET user == NewUser(NULL, NULL, NULL, NULL, NULL, NULL, "guest")
        c    == CreateUser(us, nid, user)
    IN  IF ~c.ok
        THEN [ok |-> FALSE, err |-> "failed to create guest user", users |-> c.users,
              nextID |-> c.nextID, token |-> NoToken, user |-> NoUser,
              reached |-> {}, warned |-> {}]
        ELSE LET ll == UpdateLastLogin(c.users, c.user.id, now, lastLoginOK)
             IN  [ok |-> TRUE, err |-> "", users |-> ll.users, nextID |-> c.nextID,
                  token |-> GenerateToken(c.user, now), user |-> c.user,
                  reached |-> {"lastLogin"},
                  warned |-> IF ll.ok THEN {} ELSE {"lastLogin"}]

\* variant: a missing guest row is inserted under the id of the state
PromoteGuestToUser_Upsert(us, guestID, userInfo, now, lastLoginOK) ==
    LET failed(err) == [ok |-> FALSE, err |-> err, users |-> us, token |-> NoToken,
                        user |-> NoUser, reached |-> {}, warned |-> {}]
    IN  IF ~HasUserByID(us, guestID)
        THEN LET row == [NewUser(userInfo.email, NULL, NULL, NULL, userInfo.provider,
                                 userInfo.externalID, "user")
                         EXCEPT !.id = guestID]
             IN  [ok |-> TRUE, err |-> "", users |-> us \cup {row},
                  token |-> GenerateToken(row, now), user |-> row,
                  reached |-> {}, warned |-> {}]
        ELSE LET user == GetUserByID(us, guestID)
                 name == IF userInfo.name # "" THEN userInfo.name ELSE NULL
                 \* the avatar URL goes to the AvatarURL field of the struct;
                 \* UpdateUser writes AvatarKey, which stays nil
                 updatedUser == [NewUser(userInfo.email, name, NULL, NULL,
                                         userInfo.provider, userInfo.externalID,
                                         "user")
                                 EXCEPT !.id = user.id]
                 upd == UpdateUser(us, updatedUser)
             IN  IF ~upd.ok
                 THEN failed("failed to promote guest")
                 ELSE LET reloaded == GetUserByID(upd.users, guestID)
                          ll == UpdateLastLogin(upd.users, reloaded.id, now, lastLoginOK)
                      IN  [ok |-> TRUE, err |-> "", users |-> ll.users,
                           token |-> GenerateToken(reloaded, now), user |-> reloaded,
                           reached |-> {"lastLogin"},
                           warned |-> IF ll.ok THEN {} ELSE {"lastLogin"}]

\* AuthService.PromoteGuestToUser
PromoteGuestToUser(us, guestID, userInfo, now, lastLoginOK) ==
    LET failed(err) == [ok |-> FALSE, err |-> err, users |-> us, token |-> NoToken,
                        user |-> NoUser, reached |-> {}, warned |-> {}]
    IN  IF ~HasUserByID(us, guestID)
        THEN failed("failed to find guest user")
        ELSE LET user == GetUserByID(us, guestID)
                 name == IF userInfo.name # "" THEN userInfo.name ELSE NULL
                 \* the avatar URL goes to the AvatarURL field of the struct;
                 \* UpdateUser writes AvatarKey, which stays nil
                 updatedUser == [NewUser(userInfo.email, name, NULL, NULL,
                                         userInfo.provider, userInfo.externalID,
                                         "user")
                                 EXCEPT !.id = user.id]
                 upd == UpdateUser(us, updatedUser)
             IN  IF ~upd.ok
                 THEN failed("failed to promote guest")
                 ELSE LET reloaded == GetUserByID(upd.users, guestID)
                          ll == UpdateLastLogin(upd.users, reloaded.id, now, lastLoginOK)
                      IN  [ok |-> TRUE, err |-> "", users |-> ll.users,
                           token |-> GenerateToken(reloaded, now), user |-> reloaded,
                           reached |-> {"lastLogin"},
                           warned |-> IF ll.ok THEN {} ELSE {"lastLogin"}]

-----------------------------------------------------------------------------
(* OAuthService *)

\* models.OAuthUserInfo
OAuthUserInfo(email, name, avatarURL, externalID, provider) ==
    [email |-> email, name |-> name, avatarURL |-> avatarURL,
     externalID |-> externalID, provider |-> provider]

\* the profile of a provider account: x1 has a display name and a picture,
\* x2 has neither
ProfileName(externalID) == IF externalID = "x1" THEN "Ann" ELSE ""

ProfileAvatarURL(externalID) == IF externalID = "x1" THEN "http://pic" ELSE ""

\* the user infos a provider can report, after parsing
UserInfos ==
    {OAuthUserInfo(e, ProfileName(x), ProfileAvatarURL(x), x, p) :
        e \in Emails, x \in ExternalIDs, p \in Providers}

\* variant: the verified_email field of the response not read
parseGoogleUserInfo_Unchecked(userInfo, verifiedEmail) ==
    [ok |-> TRUE, err |-> "", userInfo |-> [userInfo EXCEPT !.provider = "google"]]

\* OAuthService.parseGoogleUserInfo: the response of the userinfo endpoint
\* carries the fields of userInfo and verified_email
parseGoogleUserInfo(userInfo, verifiedEmail) ==
    IF ~verifiedEmail
    THEN [ok |-> FALSE, err |-> "email is not verified", userInfo |-> userInfo]
    ELSE [ok |-> TRUE, err |-> "", userInfo |-> [userInfo EXCEPT !.provider = "google"]]

\* OAuthService.parseYandexUserInfo: the response carries no verification
\* field; an empty email is refused
parseYandexUserInfo(userInfo) ==
    IF userInfo.email = ""
    THEN [ok |-> FALSE, err |-> "email not found in Yandex response",
          userInfo |-> userInfo]
    ELSE [ok |-> TRUE, err |-> "", userInfo |-> [userInfo EXCEPT !.provider = "yandex"]]

\* OAuthService.getUserInfo, from the response of the provider's endpoint
getUserInfo(provider, userInfo, verifiedEmail) ==
    IF provider = "google" THEN parseGoogleUserInfo(userInfo, verifiedEmail)
    ELSE parseYandexUserInfo(userInfo)

\* strings are sequences of one-character strings
GuestPrefix == <<"g", "u", "e", "s", "t", ":">>

DigitChars == <<"0", "1", "2", "3", "4", "5", "6", "7", "8", "9">>

DigitValue(c) == (CHOOSE i \in 1..10 : DigitChars[i] = c) - 1

IsDigit(c) == \E i \in 1..10 : DigitChars[i] = c

ProviderChars(provider) ==
    IF provider = "google" THEN <<"g", "o", "o", "g", "l", "e">>
    ELSE <<"y", "a", "n", "d", "e", "x">>

\* fmt.Sprintf("%d", n) for the ids of the model
FormatInt(n) == <<DigitChars[n + 1]>>

\* the state OAuthService.GetAuthURL builds: "<provider>:guest:<id>"
BuildState(provider, guestUserID) ==
    ProviderChars(provider) \o <<":">> \o GuestPrefix \o FormatInt(guestUserID)

\* the loop of findSubstring, from index i down to 0
RECURSIVE findSubstringFrom(_, _, _)
findSubstringFrom(s, substr, i) ==
    IF i < 0 THEN -1
    ELSE IF SubSeq(s, i + 1, i + Len(substr)) = substr THEN i
    ELSE findSubstringFrom(s, substr, i - 1)

\* findSubstring: the index (from 0) of the last occurrence, or -1
findSubstring(s, substr) == findSubstringFrom(s, substr, Len(s) - Len(substr))

\* the leading spaces fmt.Sscanf skips before a %d verb
RECURSIVE SkipSpaces(_)
SkipSpaces(s) == IF s # <<>> /\ Head(s) = " " THEN SkipSpaces(Tail(s)) ELSE s

\* the run of digits at the front of s
RECURSIVE DigitPrefix(_)
DigitPrefix(s) ==
    IF s # <<>> /\ IsDigit(Head(s)) THEN <<Head(s)>> \o DigitPrefix(Tail(s)) ELSE <<>>

RECURSIVE DecimalValue(_, _)
DecimalValue(digits, acc) ==
    IF digits = <<>> THEN acc
    ELSE DecimalValue(Tail(digits), acc * 10 + DigitValue(Head(digits)))

\* fmt.Sscanf(str, "%d", &n): spaces, an optional sign, then at least one digit;
\* whatever follows the digits is left unread
Sscanf(str) ==
    LET s1     == SkipSpaces(str)
        signed == s1 # <<>> /\ Head(s1) \in {"+", "-"}
        s2     == IF signed THEN Tail(s1) ELSE s1
        digits == DigitPrefix(s2)
        value  == DecimalValue(digits, 0)
    IN  IF digits = <<>> THEN [ok |-> FALSE, n |-> 0]
        ELSE [ok |-> TRUE, n |-> IF signed /\ Head(s1) = "-" THEN 0 - value ELSE value]

\* OAuthService.parseStateForGuestID
parseStateForGuestID(state) ==
    IF state = <<>> THEN 0
    ELSE LET guestIdx == findSubstring(state, GuestPrefix)
         IN  IF guestIdx = -1 THEN 0
             ELSE LET guestIDStr == SubSeq(state, guestIdx + Len(GuestPrefix) + 1, Len(state))
                      scanned    == Sscanf(guestIDStr)
                  IN  IF ~scanned.ok THEN 0 ELSE scanned.n

\* variant: the account created without the external id of the identity
createOAuthUser_NoExternalID(us, nid, userInfo) ==
    LET name == IF userInfo.name # "" THEN userInfo.name ELSE NULL
        user == NewUser(userInfo.email, name, NULL, NULL, userInfo.provider,
                        NULL, "user")
        c    == CreateUser(us, nid, user)
    IN  [ok |-> c.ok, err |-> IF c.ok THEN "" ELSE "failed to create user",
         branch |-> "create", users |-> c.users, nextID |-> c.nextID,
         user |-> IF c.ok THEN c.user ELSE NoUser, token |-> NoToken,
         reached |-> {}, warned |-> {}]

\* variant: the avatar URL of the identity stored as the avatar key
createOAuthUser_WithAvatar(us, nid, userInfo) ==
    LET name == IF userInfo.name # "" THEN userInfo.name ELSE NULL
        user == NewUser(userInfo.email, name, userInfo.avatarURL, NULL,
                        userInfo.provider, userInfo.externalID, "user")
        c    == CreateUser(us, nid, user)
    IN  [ok |-> c.ok, err |-> IF c.ok THEN "" ELSE "failed to create user",
         branch |-> "create", users |-> c.users, nextID |-> c.nextID,
         user |-> IF c.ok THEN c.user ELSE NoUser, token |-> NoToken,
         reached |-> {}, warned |-> {}]

\* OAuthService.createOAuthUser
createOAuthUser(us, nid, userInfo) ==
    LET name == IF userInfo.name # "" THEN userInfo.name ELSE NULL
        user == NewUser(userInfo.email, name, NULL, NULL, userInfo.provider,
                        userInfo.externalID, "user")
        c    == CreateUser(us, nid, user)
    IN  [ok |-> c.ok, err |-> IF c.ok THEN "" ELSE "failed to create user",
         branch |-> "create", users |-> c.users, nextID |-> c.nextID,
         user |-> IF c.ok THEN c.user ELSE NoUser, token |-> NoToken,
         reached |-> {}, warned |-> {}]

\* variant: SCENARIO A without the check for another provider
findOrCreateUser_NoProviderCheck(us, nid, userInfo, guestUserID, now, linkOK, lastLoginOK) ==
    IF HasUserByEmail(us, userInfo.email)
    THEN \* SCENARIO A: the email belongs to an account
         LET user == GetUserByEmail(us, userInfo.email)
         IN  IF user.provider # NULL /\ user.provider = "local"
             THEN LET linked == [user EXCEPT !.externalID = userInfo.externalID,
                                             !.provider = userInfo.provider]
                      lk == LinkOAuthAccount(us, user.id, linked.provider,
                                             linked.externalID, linkOK)
                      ll == UpdateLastLogin(lk.users, user.id, now, lastLoginOK)
                  IN  [ok |-> TRUE, err |-> "", branch |-> "email",
                       users |-> ll.users, nextID |-> nid, user |-> linked,
                       token |-> NoToken,
                       reached |-> {"link", "lastLogin"},
                       warned |-> (IF lk.ok THEN {} ELSE {"link"}) \cup
                                  (IF ll.ok THEN {} ELSE {"lastLogin"})]
             ELSE LET ll == UpdateLastLogin(us, user.id, now, lastLoginOK)
                  IN  [ok |-> TRUE, err |-> "", branch |-> "email",
                       users |-> ll.users, nextID |-> nid, user |-> user,
                       token |-> NoToken, reached |-> {"lastLogin"},
                       warned |-> IF ll.ok THEN {} ELSE {"lastLogin"}]
    ELSE IF guestUserID > 0
    THEN \* SCENARIO B: guest promotion; the response of PromoteGuestToUser
         \* (its account and its token) is carried in the result
         [branch |-> "promote", nextID |-> nid] @@
            PromoteGuestToUser(us, guestUserID, userInfo, now, lastLoginOK)
    ELSE \* SCENARIO C: a new account
         createOAuthUser(us, nid, userInfo)

\* variant: the guest id of the state tested before the email lookup
findOrCreateUser_PromoteFirst(us, nid, userInfo, guestUserID, now, linkOK, lastLoginOK) ==
    IF guestUserID > 0
    THEN [branch |-> "promote", nextID |-> nid] @@
            PromoteGuestToUser(us, guestUserID, userInfo, now, lastLoginOK)
    ELSE
         IF HasUserByEmail(us, userInfo.email)
         THEN \* SCENARIO A: the email belongs to an account
              LET user == GetUserByEmail(us, userInfo.email)
              IN  IF user.provider # NULL /\ user.provider = "local"
                  THEN LET linked == [user EXCEPT !.externalID = userInfo.externalID,
                                                  !.provider = userInfo.provider]
                           lk == LinkOAuthAccount(us, user.id, linked.provider,
                                                  linked.externalID, linkOK)
                           ll == UpdateLastLogin(lk.users, user.id, now, lastLoginOK)
                       IN  [ok |-> TRUE, err |-> "", branch |-> "email",
                            users |-> ll.users, nextID |-> nid, user |-> linked,
                            token |-> NoToken,
                            reached |-> {"link", "lastLogin"},
                            warned |-> (IF lk.ok THEN {} ELSE {"link"}) \cup
                                       (IF ll.ok THEN {} ELSE {"lastLogin"})]
                  ELSE IF user.provider # NULL /\ user.provider # userInfo.provider
                  THEN [ok |-> FALSE, err |-> "user already exists with provider",
                        branch |-> "email", users |-> us, nextID |-> nid,
                        user |-> NoUser, token |-> NoToken,
                        reached |-> {}, warned |-> {}]
                  ELSE LET ll == UpdateLastLogin(us, user.id, now, lastLoginOK)
                       IN  [ok |-> TRUE, err |-> "", branch |-> "email",
                            users |-> ll.users, nextID |-> nid, user |-> user,
                            token |-> NoToken, reached |-> {"lastLogin"},
                            warned |-> IF ll.ok THEN {} ELSE {"lastLogin"}]
         ELSE IF guestUserID > 0
         THEN \* SCENARIO B: guest promotion; the response of PromoteGuestToUser
              \* (its account and its token) is carried in the result
              [branch |-> "promote", nextID |-> nid] @@
                 PromoteGuestToUser(us, guestUserID, userInfo, now, lastLoginOK)
         ELSE \* SCENARIO C: a new account
              createOAuthUser(us, nid, userInfo)

\* OAuthService.findOrCreateUser
findOrCreateUser(us, nid, userInfo, guestUserID, now, linkOK, lastLoginOK) ==
    IF HasUserByEmail(us, userInfo.email)
    THEN \* SCENARIO A: the email belongs to an account
         LET user == GetUserByEmail(us, userInfo.email)
         IN  IF user.provider # NULL /\ user.provider = "local"
             THEN LET linked == [user EXCEPT !.externalID = userInfo.externalID,
                                             !.provider = userInfo.provider]
                      lk == LinkOAuthAccount(us, user.id, linked.provider,
                                             linked.externalID, linkOK)
                      ll == UpdateLastLogin(lk.users, user.id, now, lastLoginOK)
                  IN  [ok |-> TRUE, err |-> "", branch |-> "email",
                       users |-> ll.users, nextID |-> nid, user |-> linked,
                       token |-> NoToken,
                       reached |-> {"link", "lastLogin"},
                       warned |-> (IF lk.ok THEN {} ELSE {"link"}) \cup
                                  (IF ll.ok THEN {} ELSE {"lastLogin"})]
             ELSE IF user.provider # NULL /\ user.provider # userInfo.provider
             THEN [ok |-> FALSE, err |-> "user already exists with provider",
                   branch |-> "email", users |-> us, nextID |-> nid,
                   user |-> NoUser, token |-> NoToken,
                   reached |-> {}, warned |-> {}]
             ELSE LET ll == UpdateLastLogin(us, user.id, now, lastLoginOK)
                  IN  [ok |-> TRUE, err |-> "", branch |-> "email",
                       users |-> ll.users, nextID |-> nid, user |-> user,
                       token |-> NoToken, reached |-> {"lastLogin"},
                       warned |-> IF ll.ok THEN {} ELSE {"lastLogin"}]
    ELSE IF guestUserID > 0
    THEN \* SCENARIO B: guest promotion; the response of PromoteGuestToUser
         \* (its account and its token) is carried in the result
         [branch |-> "promote", nextID |-> nid] @@
            PromoteGuestToUser(us, guestUserID, userInfo, now, lastLoginOK)
    ELSE \* SCENARIO C: a new account
         createOAuthUser(us, nid, userInfo)

-----------------------------------------------------------------------------
(* Request authentication middleware *)

\* the Authorization header as r.Header.Get returns it: a sequence of symbols,
\* each a space, a word, or a token string
Space == [kind |-> "space", text |-> " ", token |-> NoToken]

Word(text) == [kind |-> "word", text |-> text, token |-> NoToken]

TokenSym(token) == [kind |-> "token", text |-> "", token |-> token]

\* strings.Split(s, " "): the pieces between the spaces, empty ones included
RECURSIVE Split(_)
Split(s) ==
    IF \A i \in 1..Len(s) : s[i] # Space THEN <<s>>
    ELSE LET i == CHOOSE k \in 1..Len(s) :
                     s[k] = Space /\ \A j \in 1..(k - 1) : s[j] # Space
         IN  <<SubSeq(s, 1, i - 1)>> \o Split(SubSeq(s, i + 1, Len(s)))

\* a string that is no JWT at all
GarbageToken == [NoToken EXCEPT !.alg = "garbage"]

\* the token string a piece of the header is
TokenString(part) ==
    IF Len(part) = 1 /\ part[1].kind = "token" THEN part[1].token ELSE GarbageToken

\* the request context: the values under UserIDKey and RoleKey
NoIdentity == [set |-> FALSE, userID |-> 0, role |-> ""]

Identity(userID, role) == [set |-> TRUE, userID |-> userID, role |-> role]

\* http.Error(w, body, status): the handler behind the middleware is not called
Rejected(status, body) ==
    [status |-> status, body |-> body, handlerCalls |-> 0, ctx |-> NoIdentity]

\* next.ServeHTTP(w, r) with the context ctx: the handler answers
Served(ctx) == [status |-> 200, body |-> "handler", handlerCalls |-> 1, ctx |-> ctx]

\* variant: the scheme word of the header not compared with Bearer
AuthMiddleware_AnyScheme(authHeader, now) ==
    IF authHeader = <<>>
    THEN Rejected(401, "Authorization header is required")
    ELSE LET parts == Split(authHeader)
         IN  IF Len(parts) # 2
             THEN Rejected(401, "Invalid authorization header format. Expected: Bearer <token>")
             ELSE LET v == ValidateToken(TokenString(parts[2]), now)
                  IN  IF ~v.ok
                      THEN Rejected(401, "Invalid or expired token")
                      ELSE Served(Identity(v.userID, v.role))

\* middleware.AuthMiddleware
AuthMiddleware(authHeader, now) ==
    IF authHeader = <<>>
    THEN Rejected(401, "Authorization header is required")
    ELSE LET parts == Split(authHeader)
         IN  IF Len(parts) # 2 \/ parts[1] # <<Word("Bearer")>>
             THEN Rejected(401, "Invalid authorization header format. Expected: Bearer <token>")
             ELSE LET v == ValidateToken(TokenString(parts[2]), now)
                  IN  IF ~v.ok
                      THEN Rejected(401, "Invalid or expired token")
                      ELSE Served(Identity(v.userID, v.role))

\* variant: an invalid token answered with 401 as AuthMiddleware does
OptionalAuthMiddleware_Strict(authHeader, now) ==
    IF authHeader = <<>>
    THEN Served(NoIdentity)
    ELSE LET parts == Split(authHeader)
         IN  IF Len(parts) # 2 \/ parts[1] # <<Word("Bearer")>>
             THEN Served(NoIdentity)
             ELSE LET v == ValidateToken(TokenString(parts[2]), now)
                  IN  IF ~v.ok
                      THEN Rejected(401, "Invalid or expired token")
                      ELSE Served(Identity(v.userID, v.role))

\* middleware.OptionalAuthMiddleware
OptionalAuthMiddleware(authHeader, now) ==
    IF authHeader = <<>>
    THEN Served(NoIdentity)
    ELSE LET parts == Split(authHeader)
         IN  IF Len(parts) # 2 \/ parts[1] # <<Word("Bearer")>>
             THEN Served(NoIdentity)
             ELSE LET v == ValidateToken(TokenString(parts[2]), now)
                  IN  IF ~v.ok
                      THEN Served(NoIdentity)
                      ELSE Served(Identity(v.userID, v.role))

\* variant: the gate decides on the role the token carries
RequireAdmin_TokenRole(ctx, us, storeOK) ==
    IF ~ctx.set
    THEN Rejected(401, "User not authenticated")
    ELSE IF ~storeOK \/ ~HasUserByID(us, ctx.userID)
         THEN Rejected(500, "Failed to verify user permissions")
         ELSE IF ctx.role # "admin"
              THEN Rejected(403, "Forbidden: Admin access required")
              ELSE Served(ctx)

\* middleware.RequireAdmin: ctx is the context AuthMiddleware passed on;
\* userRepo.GetUserByID fails on a store fault and on a missing row
RequireAdmin(ctx, us, storeOK) ==
    IF ~ctx.set
    THEN Rejected(401, "User not authenticated")
    ELSE IF ~storeOK \/ ~HasUserByID(us, ctx.userID)
         THEN Rejected(500, "Failed to verify user permissions")
         ELSE IF GetUserByID(us, ctx.userID).role # "admin"
              THEN Rejected(403, "Forbidden: Admin access required")
              ELSE Served(ctx)

\* variant: the gate passes every request that carries an identity
RequireAuth_NoLookup(ctx, us, storeOK) ==
    IF ~ctx.set
    THEN Rejected(401, "User not authenticated")
    ELSE Served(ctx)

\* middleware.RequireAuth
RequireAuth(ctx, us, storeOK) ==
    IF ~ctx.set
    THEN Rejected(401, "User not authenticated")
    ELSE IF ~storeOK \/ ~HasUserByID(us, ctx.userID)
         THEN Rejected(500, "Failed to verify user")
         ELSE IF GetUserByID(us, ctx.userID).role \notin {"user", "admin", "guest"}
              THEN Rejected(403, "Forbidden: Invalid user role")
              ELSE Served(ctx)

\* r.Use(AuthMiddleware) followed by r.Use(RequireAdmin(userRepo)): the gate
\* is reached only through next.ServeHTTP of AuthMiddleware
AdminRoute(authHeader, now, us, storeOK) ==
    LET a == AuthMiddleware(authHeader, now)
    IN  IF a.handlerCalls = 0 THEN a ELSE RequireAdmin(a.ctx, us, storeOK)

\* r.Use(AuthMiddleware) followed by r.Use(RequireAuth(userRepo))
AuthRoute(authHeader, now, us, storeOK) ==
    LET a == AuthMiddleware(authHeader, now)
    IN  IF a.handlerCalls = 0 THEN a ELSE RequireAuth(a.ctx, us, storeOK)

-----------------------------------------------------------------------------
(* Calls in progress: each HTTP request is served by a goroutine of its own *)

\* the connections that carry requests at the same time
Procs == {"c1", "c2"}

\* no identity: the user info of a call that is no OAuth callback
NoUserInfo == OAuthUserInfo(NULL, "", "", NULL, NULL)

\* a call in progress: its inputs, the statement it executes next, the
\* account its last read returned, and its outcome
Call(op, pc, email, password, userInfo, guestID) ==
    [op |-> op, pc |-> pc, email |-> email, password |-> password,
     userInfo |-> userInfo, guestID |-> guestID, user |-> NoUser,
     ok |-> FALSE, err |-> ""]

NoCall == Call("", "idle", NULL, NULL, NoUserInfo, 0)

NoCalls == [p \in Procs |-> NoCall]

-----------------------------------------------------------------------------
(* The operations as steps of the program *)

\* what the caller of a service operation sees, and what the call logged
Result(op, email, password, provider, externalID, guestID, r) ==
    [op |-> op, email |-> email, password |-> password, provider |-> provider,
     externalID |-> externalID, guestID |-> guestID,
     ok |-> r.ok, err |-> r.err, token |-> r.token, user |-> r.user,
     branch |-> r.branch, promoteToken |-> NoToken, warned |-> r.warned,
     at |-> clock, status |-> 0, body |-> "", holder |-> 0, state |-> <<>>,
     verified |-> TRUE]

NoResult ==
    [op |-> "", email |-> NULL, password |-> NULL, provider |-> NULL,
     externalID |-> NULL, guestID |-> 0, ok |-> FALSE, err |-> "",
     token |-> NoToken, user |-> NoUser, branch |-> "", promoteToken |-> NoToken,
     warned |-> {}, at |-> 0, status |-> 0, body |-> "", holder |-> 0,
     state |-> <<>>, verified |-> TRUE]

\* errors.New(text): a pointer to a fresh errorString, so each evaluation of
\* the call yields a value of its own; site names the evaluation
ErrorsNew(text, site) == [text |-> text, site |-> site]

\* errors.Is(err, target) for errors that wrap nothing and define no Is
\* method: the comparison err == target of the two pointers
ErrorsIs(err, target) == err = target

\* the error value a failed call of AuthService returns
ServiceError(r) == ErrorsNew(r.err, "AuthService")

\* sendErrorResponse / sendJSONResponse: the status and the body written
Response(r, status, body) == [r EXCEPT !.status = status, !.body = body]

\* AuthHandler.Register after validation, from the result of AuthService.Register
AuthHandler_Register(r) ==
    IF ~r.ok
    THEN IF ErrorsIs(ServiceError(r),
                     ErrorsNew("user with this email already exists", "AuthHandler.Register"))
         THEN Response(r, 409, r.err)
         ELSE Response(r, 500, "Registration failed")
    ELSE Response(r, 201, "AuthResponse")

\* AuthHandler.Login after validation, from the result of AuthService.Login
AuthHandler_Login(r) ==
    IF ~r.ok
    THEN IF ErrorsIs(ServiceError(r),
                     ErrorsNew("invalid email or password", "AuthHandler.Login"))
         THEN Response(r, 401, r.err)
         ELSE Response(r, 500, "Login failed")
    ELSE Response(r, 200, "AuthResponse")

\* AuthHandler.GuestLogin
AuthHandler_GuestLogin(r) ==
    IF ~r.ok
    THEN Response(r, 500, "Failed to create guest session")
    ELSE Response(r, 200, "GuestResponse")

\* OAuthHandler.OAuthCallback with a code
OAuthHandler_OAuthCallback(r) ==
    IF ~r.ok
    THEN Response(r, 500, "Failed to authenticate")
    ELSE Response(r, 307, "redirect")

\* the fields only an OAuth callback fills
Plain(r) == r @@ [branch |-> "", warned |-> {}, reached |-> {}]

\* a store fault is chosen only for a soft write the call reaches
FaultsReached(r, linkOK, lastLoginOK) ==
    /\ ~linkOK => "link" \in r.reached
    /\ ~lastLoginOK => "lastLogin" \in r.reached

\* no call is in progress: the last response has been sent
Idle == last = NoResult

\* the handler returns and the response is sent
Respond ==
    /\ ~Idle
    /\ last' = NoResult
    /\ UNCHANGED <<users, nextID, clock, registered, tok, obs, calls>>

\* no Register call has just been answered
NoRegistration == [id |-> 0, email |-> NULL, password |-> NULL]

\* POST /api/auth/register
RegisterCall(email, password) ==
    /\ Idle
    /\ nextID <= MaxID
    /\ \E r \in {Register(users, nextID, email, password, clock)} :
           /\ users' = r.users
           /\ nextID' = r.nextID
           /\ registered' = IF r.ok
                            THEN [id |-> r.user.id, email |-> email, password |-> password]
                            ELSE NoRegistration
           /\ last' = AuthHandler_Register(
                          Result("Register", email, password, NULL, NULL, 0, Plain(r)))
    /\ UNCHANGED <<clock, tok, obs, calls>>

\* POST /api/auth/login
LoginCall(email, password, lastLoginOK) ==
    /\ Idle
    /\ \E r \in {Login(users, email, password, clock, lastLoginOK)} :
           /\ FaultsReached(r, TRUE, lastLoginOK)
           /\ users' = r.users
           /\ last' = AuthHandler_Login(
                          Result("Login", email, password, NULL, NULL, 0,
                                 [Plain(r) EXCEPT !.warned = r.warned]))
    /\ UNCHANGED <<nextID, clock, registered, tok, obs, calls>>

\* POST /api/auth/guest
GuestLoginCall(lastLoginOK) ==
    /\ Idle
    /\ nextID <= MaxID
    /\ \E r \in {GuestLogin(users, nextID, clock, lastLoginOK)} :
           /\ FaultsReached(r, TRUE, lastLoginOK)
           /\ users' = r.users
           /\ nextID' = r.nextID
           /\ last' = AuthHandler_GuestLogin(
                          Result("GuestLogin", NULL, NULL, NULL, NULL, 0,
                                 [Plain(r) EXCEPT !.warned = r.warned]))
    /\ registered' = NoRegistration
    /\ UNCHANGED <<clock, tok, obs, calls>>

\* state parameters that name no guest: none at all, the provider alone, the
\* prefix without an id, with a letter for the id, and with a negative id
NoGuestStates(provider) ==
    {<<>>,
     ProviderChars(provider),
     ProviderChars(provider) \o <<":">> \o GuestPrefix,
     ProviderChars(provider) \o <<":">> \o GuestPrefix \o <<"x">>,
     ProviderChars(provider) \o <<":">> \o GuestPrefix \o <<"-", "1">>}

\* the state parameter of a callback request: the client sends what
\* GetAuthURL built, for any id, or a string of its own
CallbackStates ==
    [p \in Providers |-> {BuildState(p, g) : g \in 0..MaxID} \cup NoGuestStates(p)]

\* GET /api/auth/{provider}/callback: OAuthService.HandleCallback from the
\* response of the provider's user-info endpoint. When getUserInfo fails the
\* call returns there, before the state is parsed and findOrCreateUser is
\* called; the result is recorded under the name getUserInfo. Otherwise the
\* token of the response is generated from the account findOrCreateUser
\* returned.
HandleCallback(provider, userInfo, state, verifiedEmail) ==
    /\ Idle
    /\ provider = "yandex" => verifiedEmail
    /\ \E info \in {getUserInfo(provider, userInfo, verifiedEmail)} :
       IF ~info.ok
       THEN /\ last' = [OAuthHandler_OAuthCallback(
                           Result("getUserInfo", userInfo.email, NULL, provider,
                                  userInfo.externalID, 0,
                                  [ok |-> FALSE, err |-> "failed to get user info",
                                   token |-> NoToken, user |-> NoUser,
                                   branch |-> "", warned |-> {}]))
                        EXCEPT !.state = state, !.verified = verifiedEmail]
            /\ UNCHANGED <<users, nextID>>
       ELSE \E guestUserID \in {parseStateForGuestID(state)} :
            \E linkOK \in BOOLEAN, lastLoginOK \in BOOLEAN :
            \E r \in {findOrCreateUser(users, nextID,
                                       [info.userInfo EXCEPT !.provider = provider],
                                       guestUserID, clock, linkOK, lastLoginOK)} :
                /\ r.nextID <= MaxID + 1
                /\ FaultsReached(r, linkOK, lastLoginOK)
                /\ users' = r.users
                /\ nextID' = r.nextID
                /\ last' = OAuthHandler_OAuthCallback(
                               [Result("HandleCallback", userInfo.email, NULL, provider,
                                       userInfo.externalID, guestUserID,
                                       [r EXCEPT !.token = IF r.ok
                                                           THEN GenerateToken(r.user, clock)
                                                           ELSE NoToken])
                                EXCEPT !.promoteToken = r.token, !.state = state,
                                       !.verified = verifiedEmail])
    /\ registered' = NoRegistration
    /\ UNCHANGED <<clock, tok, obs, calls>>

\* the context a handler of the /api/auth group receives: the group is
\* mounted behind the global middleware only (RequestID, Logger, Recoverer,
\* CORS), none of which reads the Authorization header
PublicRoute(authHeader, now) == NoIdentity

\* OAuthHandler.OAuthLogin with OAuthService.GetAuthURL: the state parameter
\* of the redirect, from the context of the request
OAuthLogin(ctx, provider) ==
    IF ctx.set THEN BuildState(provider, ctx.userID) ELSE BuildState(provider, 0)

\* the Authorization header of a client holding the token of account holder;
\* no header when holder is 0
HolderHeader(us, holder, now) ==
    IF holder = 0 THEN <<>>
    ELSE <<Word("Bearer"), Space, TokenSym(GenerateToken(GetUserByID(us, holder), now))>>

\* GET /api/auth/{provider}/login, sent with the token of account holder
OAuthLoginCall(provider, holder) ==
    /\ Idle
    /\ holder # 0 => HasUserByID(users, holder)
    /\ \E ctx \in {PublicRoute(HolderHeader(users, holder, clock), clock)} :
           last' = [Response(Result("OAuthLogin", NULL, NULL, provider, NULL, 0,
                                    [ok |-> TRUE, err |-> "", token |-> NoToken,
                                     user |-> NoUser, branch |-> "", warned |-> {}]),
                             307, "redirect")
                    EXCEPT !.holder = holder, !.state = OAuthLogin(ctx, provider)]
    /\ registered' = NoRegistration
    /\ UNCHANGED <<users, nextID, clock, tok, obs, calls>>

-----------------------------------------------------------------------------
(* SpecTok: tokens and requests under the clock *)

\* a store with an administrator, a registered account and a guest
TokStore ==
    {AdminRow,
     [NewUser("b@x.com", NULL, NULL, BcryptHash("secret2"), "local", NULL, "user")
        EXCEPT !.id = 2],
     [NewUser(NULL, NULL, NULL, NULL, NULL, NULL, "guest") EXCEPT !.id = 3]}

\* the claims of a token rewritten by its bearer to name the administrator
Escalated(claims) == [claims EXCEPT !.user_id = AdminRow.id, !.role = "admin"]

\* the signature segment with one byte altered
FlipByte(sig) == [sig EXCEPT !.flip = 1 - @]

\* the token strings a client holding token t can present: t, and t with its
\* header, payload or signature segment replaced. A client can sign with a
\* secret of its own, not with the configured one.
TokenStrings(t) ==
    {[alg |-> a, claims |-> c, sig |-> sg] :
        a \in Algs, c \in {t.claims, Escalated(t.claims)},
        sg \in {t.sig, FlipByte(t.sig)}}
    \cup {[alg |-> a, claims |-> c, sig |-> HMAC(k, a, c)] :
            a \in Algs, c \in {t.claims, Escalated(t.claims)}, k \in {OtherSecret, ""}}
    \cup {GarbageToken}

\* the Authorization headers a client holding token t can send
Headers(t) ==
    {<<Word("Bearer"), Space, TokenSym(c)>> : c \in TokenStrings(t)}
    \cup {<<>>,
          <<TokenSym(t)>>,
          <<Word("Bearer")>>,
          <<Word("Bearer"), Space>>,
          <<Word("Bearer"), Space, Word("abc")>>,
          <<Word("Basic"), Space, TokenSym(t)>>,
          <<Word("bearer"), Space, TokenSym(t)>>,
          <<Word("Bearer"), Space, Space, TokenSym(t)>>,
          <<Word("Bearer"), Space, TokenSym(t), Space>>,
          <<Space, Word("Bearer"), Space, TokenSym(t)>>,
          <<Word("Bearer"), Space, TokenSym(t), Space, Word("abc")>>}

\* what the last call observed
Obs(kind, header, token, res) ==
    [kind |-> kind, header |-> header, token |-> token, at |-> clock,
     storeOK |-> TRUE, res |-> res]

NoObs == [kind |-> "", header |-> <<>>, token |-> NoToken, at |-> 0,
          storeOK |-> TRUE, res |-> [ok |-> FALSE, userID |-> 0, role |-> ""]]

InitTok ==
    /\ users = TokStore
    /\ nextID = 4
    /\ clock = 0
    /\ registered = NoRegistration
    /\ last = NoResult
    /\ tok = NoToken
    /\ obs = NoObs
    /\ calls = NoCalls

\* no request is in progress
IdleTok == obs = NoObs

\* the call returns and the response is sent
RespondTok ==
    /\ ~IdleTok
    /\ obs' = NoObs
    /\ UNCHANGED <<users, nextID, clock, registered, last, tok, calls>>

\* an hour passes
Tick ==
    /\ IdleTok
    /\ clock < MaxClock
    /\ clock' = clock + 1
    /\ UNCHANGED <<users, nextID, registered, last, tok, obs, calls>>

\* a login of account u: AuthService.GenerateToken
IssueToken(u) ==
    /\ IdleTok
    /\ clock <= MaxIssue
    /\ tok' = GenerateToken(u, clock)
    /\ UNCHANGED <<users, nextID, clock, registered, last, obs, calls>>

\* AuthService.ValidateToken on a token string a client presents
ValidateTokenCall(t) ==
    /\ IdleTok
    /\ obs' = Obs("validate", <<>>, t, ValidateToken(t, clock))
    /\ UNCHANGED <<users, nextID, clock, registered, last, tok, calls>>

\* a request to a route behind AuthMiddleware
RequiredRequest(h) ==
    /\ IdleTok
    /\ obs' = Obs("required", h, NoToken, AuthMiddleware(h, clock))
    /\ UNCHANGED <<users, nextID, clock, registered, last, tok, calls>>

\* a request to a route behind OptionalAuthMiddleware
OptionalRequest(h) ==
    /\ IdleTok
    /\ obs' = Obs("optional", h, NoToken, OptionalAuthMiddleware(h, clock))
    /\ UNCHANGED <<users, nextID, clock, registered, last, tok, calls>>

NextTok ==
    \/ Tick
    \/ \E u \in users : IssueToken(u)
    \/ \E t \in TokenStrings(tok) : ValidateTokenCall(t)
    \/ \E h \in Headers(tok) : RequiredRequest(h)
    \/ \E h \in Headers(tok) : OptionalRequest(h)
    \/ RespondTok

SpecTok == InitTok /\ [][NextTok]_vars

-----------------------------------------------------------------------------
(* SpecGate: the role gates while the stored roles change *)

\* the roles an operator assigns by hand
AssignedRoles == {"user", "admin"}

\* UPDATE users SET role = ... WHERE email = ...: the documented way to
\* appoint an administrator
SetRole(email, role) ==
    /\ IdleTok
    /\ HasUserByEmail(users, email)
    /\ role \in ValidRoles
    /\ GetUserByEmail(users, email).role # role
    /\ users' = {IF u.email = email THEN [u EXCEPT !.role = role] ELSE u : u \in users}
    /\ UNCHANGED <<nextID, clock, registered, last, tok, obs, calls>>

\* a row of users removed; its tracks and track likes follow by ON DELETE
\* CASCADE
DeleteAccount(id) ==
    /\ IdleTok
    /\ HasUserByID(users, id)
    /\ users' = users \ {GetUserByID(users, id)}
    /\ UNCHANGED <<nextID, clock, registered, last, tok, obs, calls>>

\* a request to a route of the administrator group
AdminRequest(h, storeOK) ==
    /\ IdleTok
    /\ obs' = [Obs("admin", h, NoToken, AdminRoute(h, clock, users, storeOK))
                 EXCEPT !.storeOK = storeOK]
    /\ UNCHANGED <<users, nextID, clock, registered, last, tok, calls>>

\* a request to a route of a group behind RequireAuth
AuthRequest(h, storeOK) ==
    /\ IdleTok
    /\ obs' = [Obs("auth", h, NoToken, AuthRoute(h, clock, users, storeOK))
                 EXCEPT !.storeOK = storeOK]
    /\ UNCHANGED <<users, nextID, clock, registered, last, tok, calls>>

NextGate ==
    \/ \E u \in users : IssueToken(u)
    \/ \E e \in Emails, role \in AssignedRoles : SetRole(e, role)
    \/ \E u \in users : DeleteAccount(u.id)
    \/ \E h \in Headers(tok), storeOK \in BOOLEAN : AdminRequest(h, storeOK)
    \/ \E h \in Headers(tok), storeOK \in BOOLEAN : AuthRequest(h, storeOK)
    \/ RespondTok

SpecGate == InitTok /\ [][NextGate]_vars

-----------------------------------------------------------------------------
(* SpecRace: calls served at the same time. Each statement sent to the
   database is a step of its own; the statements of two calls interleave. *)

\* the identities the callbacks of the race carry: both emails, both
\* external ids
RaceUserInfos == {ui \in UserInfos : ui.provider = "google"}

\* a store with one guest account
RaceStore == {[NewUser(NULL, NULL, NULL, NULL, NULL, NULL, "guest") EXCEPT !.id = 1]}

InitRace ==
    /\ users = RaceStore
    /\ nextID = 2
    /\ clock = 0
    /\ registered = NoRegistration
    /\ last = NoResult
    /\ tok = NoToken
    /\ obs = NoObs
    /\ calls = NoCalls

\* the calls that have been received and not yet answered
InFlight == {q \in Procs : calls[q].pc # "idle"}

\* a request is accepted while the sequence can still serve every call in
\* progress
CanStart(p) ==
    /\ calls[p].pc = "idle"
    /\ nextID + Cardinality(InFlight) <= MaxID + 1

\* the call of p moves to statement pc
Goto(p, pc) == calls' = [calls EXCEPT ![p].pc = pc]

\* the call of p read account user and moves to statement pc
GotoWith(p, pc, user) == calls' = [calls EXCEPT ![p].pc = pc, ![p].user = user]

\* the call of p returns
Return(p, ok, err) ==
    calls' = [calls EXCEPT ![p].pc = "done", ![p].ok = ok, ![p].err = err]

\* POST /api/auth/register received
StartRegister(p, email, password) ==
    /\ CanStart(p)
    /\ calls' = [calls EXCEPT ![p] = Call("Register", "lookup", email, password,
                                          NoUserInfo, 0)]
    /\ UNCHANGED <<users, nextID, clock, registered, last, tok, obs>>

\* POST /api/auth/guest received: GuestLogin starts with CreateUser
StartGuestLogin(p) ==
    /\ CanStart(p)
    /\ calls' = [calls EXCEPT ![p] = Call("GuestLogin", "create", NULL, NULL,
                                          NoUserInfo, 0)]
    /\ UNCHANGED <<users, nextID, clock, registered, last, tok, obs>>

\* GET /api/auth/{provider}/callback received, the identity fetched and the
\* state parsed: findOrCreateUser starts
StartCallback(p, userInfo, guestUserID) ==
    /\ CanStart(p)
    /\ calls' = [calls EXCEPT ![p] = Call("Callback", "lookup", userInfo.email, NULL,
                                          userInfo, guestUserID)]
    /\ UNCHANGED <<users, nextID, clock, registered, last, tok, obs>>

\* AuthService.Register: GetUserByEmail
RegisterLookup(p) ==
    /\ calls[p].op = "Register" /\ calls[p].pc = "lookup"
    /\ IF HasUserByEmail(users, calls[p].email)
       THEN Return(p, FALSE, "user with this email already exists")
       ELSE Goto(p, "create")
    /\ UNCHANGED <<users, nextID, clock, registered, last, tok, obs>>

\* findOrCreateUser: GetUserByEmail and the choice of the scenario
CallbackLookup(p) ==
    /\ calls[p].op = "Callback" /\ calls[p].pc = "lookup"
    /\ IF HasUserByEmail(users, calls[p].email)
       THEN LET user == GetUserByEmail(users, calls[p].email)
            IN  IF user.provider = "local"
                THEN GotoWith(p, "link", user)
                ELSE IF user.provider # NULL /\ user.provider # calls[p].userInfo.provider
                THEN Return(p, FALSE, "user already exists with provider")
                ELSE Return(p, TRUE, "")
       ELSE IF calls[p].guestID > 0
            THEN Goto(p, "promoteRead")
            ELSE Goto(p, "create")
    /\ UNCHANGED <<users, nextID, clock, registered, last, tok, obs>>

\* findOrCreateUser, SCENARIO A: LinkOAuthAccount on the account read; a
\* failure is logged and the call goes on
Link(p, linkOK) ==
    /\ calls[p].pc = "link"
    /\ \E r \in {LinkOAuthAccount(users, calls[p].user.id, calls[p].userInfo.provider,
                                  calls[p].userInfo.externalID, linkOK)} :
           users' = r.users
    /\ Return(p, TRUE, "")
    /\ UNCHANGED <<nextID, clock, registered, last, tok, obs>>

\* PromoteGuestToUser: GetUserByID
PromoteRead(p) ==
    /\ calls[p].pc = "promoteRead"
    /\ IF HasUserByID(users, calls[p].guestID)
       THEN GotoWith(p, "promoteWrite", GetUserByID(users, calls[p].guestID))
       ELSE Return(p, FALSE, "failed to find guest user")
    /\ UNCHANGED <<users, nextID, clock, registered, last, tok, obs>>

\* PromoteGuestToUser: UpdateUser with the identity under the id read
PromoteWrite(p) ==
    /\ calls[p].pc = "promoteWrite"
    /\ \E r \in {UpdateUser(users,
                            [NewUser(calls[p].userInfo.email,
                                     IF calls[p].userInfo.name # ""
                                     THEN calls[p].userInfo.name ELSE NULL,
                                     NULL, NULL, calls[p].userInfo.provider,
                                     calls[p].userInfo.externalID, "user")
                               EXCEPT !.id = calls[p].user.id])} :
           /\ users' = r.users
           /\ IF r.ok THEN Return(p, TRUE, "")
              ELSE Return(p, FALSE, "failed to promote guest")
    /\ UNCHANGED <<nextID, clock, registered, last, tok, obs>>

\* the row the call of p inserts
NewRow(c) ==
    IF c.op = "Register"
    THEN NewUser(c.email, NULL, NULL, BcryptHash(c.password), "local", NULL, "user")
    ELSE IF c.op = "Callback"
    THEN NewUser(c.userInfo.email,
                 IF c.userInfo.name # "" THEN c.userInfo.name ELSE NULL,
                 NULL, NULL, c.userInfo.provider, c.userInfo.externalID, "user")
    ELSE NewUser(NULL, NULL, NULL, NULL, NULL, NULL, "guest")

\* Register, createOAuthUser, GuestLogin: CreateUser
Create(p) ==
    /\ calls[p].pc = "create"
    /\ \E r \in {CreateUser(users, nextID, NewRow(calls[p]))} :
           /\ users' = r.users
           /\ nextID' = r.nextID
           /\ IF r.ok THEN Return(p, TRUE, "")
              ELSE Return(p, FALSE, "failed to create user")
    /\ UNCHANGED <<clock, registered, last, tok, obs>>

\* the response is sent
RespondCall(p) ==
    /\ calls[p].pc = "done"
    /\ calls' = [calls EXCEPT ![p] = NoCall]
    /\ UNCHANGED <<users, nextID, clock, registered, last, tok, obs>>

NextRace ==
    \E p \in Procs :
        \/ \E e \in Emails : StartRegister(p, e, "secret1")
        \/ StartGuestLogin(p)
        \/ \E ui \in RaceUserInfos, g \in 0..MaxID : StartCallback(p, ui, g)
        \/ RegisterLookup(p)
        \/ CallbackLookup(p)
        \/ \E linkOK \in BOOLEAN : Link(p, linkOK)
        \/ PromoteRead(p)
        \/ PromoteWrite(p)
        \/ Create(p)
        \/ RespondCall(p)

SpecRace == InitRace /\ [][NextRace]_vars

-----------------------------------------------------------------------------
(* Spec: the account store under the service operations *)

Init ==
    /\ users \in {{}, {AdminRow}}
    /\ nextID = Cardinality(users) + 1
    /\ clock = 0
    /\ registered = NoRegistration
    /\ last = NoResult
    /\ tok = NoToken
    /\ obs = NoObs
    /\ calls = NoCalls

Next ==
    \/ \E e \in Emails, p \in Passwords : RegisterCall(e, p)
    \/ \E e \in Emails, p \in Passwords, ll \in BOOLEAN : LoginCall(e, p, ll)
    \/ \E p \in Providers, holder \in 0..MaxID : OAuthLoginCall(p, holder)
    \/ \E ll \in BOOLEAN : GuestLoginCall(ll)
    \/ \E ui \in UserInfos : \E st \in CallbackStates[ui.provider] :
       \E verifiedEmail \in BOOLEAN :
          HandleCallback(ui.provider, ui, st, verifiedEmail)
    \/ Respond

Spec == Init /\ [][Next]_vars

-----------------------------------------------------------------------------
(* Properties of the service operations, checked under Spec *)

\* what ValidateToken answers for a token it accepts
Accepted(userID, role) == [ok |-> TRUE, userID |-> userID, role |-> role]

\* C1: a Login with the email and the password of the Register call
\* answered just before it succeeds, and ValidateToken maps its token to the
\* id Register returned and to the role user.
C1_RegisterThenLogin ==
    (/\ last.op = "Login"
     /\ registered # NoRegistration
     /\ last.email = registered.email /\ last.password = registered.password)
    => /\ last.ok
       /\ ValidateToken(last.token, last.at) = Accepted(registered.id, "user")

\* a Login that succeeded with the credentials just registered
C1_Witness ==
    /\ last.op = "Login" /\ last.ok
    /\ registered = [id |-> last.user.id, email |-> last.email,
                     password |-> last.password]
    /\ last.user.provider = "local" /\ last.user.role = "user"
    /\ last.user.passwordHash = BcryptHash(last.password)
    /\ ValidateToken(last.token, last.at) = Accepted(last.user.id, "user")

\* C2: a failed Login returns the same error whether the email is unknown,
\* the account has no password credential, or the hash mismatches.
C2_SameErrorInAllCases ==
    (last.op = "Login" /\ ~last.ok) => last.err = "invalid email or password"

\* a Login for an account without a password credential failed with an error
\* of its own
C2_OAuthOnlyLogin ==
    /\ last.op = "Login" /\ ~last.ok
    /\ HasUserByEmail(users, last.email)
    /\ GetUserByEmail(users, last.email).passwordHash = NULL
    /\ last.err = "user must login via OAuth"

\* the account of the store with the given id, as a set (empty if none)
AccountsWithID(us, id) == {r \in us : r.id = id}

\* C5: a GuestLogin call creates an account under an id no account had
\* before (so two calls give two distinct ids), with the role guest and no
\* email, password, provider or external id; its token is valid at once and
\* ValidateToken maps it to that id and to the role guest.
C5_GuestLoginFreshGuest ==
    [][(last'.op = "GuestLogin" /\ last'.ok)
       => /\ ~HasUserByID(users, last'.user.id)
          /\ users' = users \cup {last'.user}
          /\ last'.user = [NewUser(NULL, NULL, NULL, NULL, NULL, NULL, "guest")
                             EXCEPT !.id = last'.user.id]
          /\ ValidateToken(last'.token, last'.at) = Accepted(last'.user.id, "guest")]_vars

\* the second of two GuestLogin calls has returned
C5_Witness ==
    /\ last.op = "GuestLogin" /\ last.ok
    /\ Cardinality({r \in users : r.role = "guest"}) = 2
    /\ \E r \in users : r.role = "guest" /\ r.id # last.user.id

\* the callback step promotes an existing guest: the email of the identity
\* matches no account and the state names the id of a guest account
PromotesGuest ==
    /\ last'.op = "HandleCallback"
    /\ last'.branch = "promote"
    /\ \E g \in users : g.id = last'.guestID /\ g.role = "guest"

\* the promotion described by C6: the guest's row becomes the account of the
\* identity under the same id, no row is added or changed besides it, and the
\* token PromoteGuestToUser returns maps to that id and the role user
PromotionDone ==
    /\ last'.ok
    /\ \E g \in users :
          /\ g.id = last'.guestID
          /\ \E a \in users' :
                /\ a.id = g.id /\ a.role = "user"
                /\ a.email = last'.email
                /\ a.provider = last'.provider
                /\ a.externalID = last'.externalID
                /\ users' = (users \ {g}) \cup {a}
    /\ Cardinality(AccountsWithID(users', last'.guestID)) = 1
    /\ nextID' = nextID
    /\ ValidateToken(last'.promoteToken, last'.at) = Accepted(last'.guestID, "user")

\* C6 as stated: promoting an existing guest with an identity whose email is
\* unused leaves exactly one account under the guest's id, with the role user
\* and the identity's email, provider and external id, creates no account,
\* and returns a token for that id and the role user.
C6_PromoteAlwaysDone == [][PromotesGuest => PromotionDone]_vars

\* C6 amended: the same, provided the identity's (provider, external id)
\* pair is attached to no other account.
C6_PromoteDoneIfPairFree ==
    [][(/\ PromotesGuest
        /\ ~\E r \in users : /\ r.id # last'.guestID
                             /\ r.provider = last'.provider
                             /\ r.externalID = last'.externalID)
       => PromotionDone]_vars

\* a guest was promoted while another account existed
C6_Witness ==
    /\ last.op = "HandleCallback" /\ last.branch = "promote" /\ last.ok
    /\ last.guestID = last.user.id
    /\ ValidateToken(last.promoteToken, last.at) = Accepted(last.guestID, "user")
    /\ Cardinality(users) = 2

\* the callback step finds the identity's email on an account whose provider
\* is neither local nor the identity's
ProviderConflict ==
    /\ last'.op = "HandleCallback"
    /\ \E a \in users : /\ a.email = last'.email
                        /\ a.provider \notin {NULL, "local", last'.provider}

\* C7: a callback whose identity's email belongs to an account attached to a
\* different, non-local provider fails with the provider-conflict error,
\* returns no token and leaves the store (so the account's provider and
\* external id) as it was.
C7_ProviderConflictFails ==
    [][ProviderConflict
       => /\ ~last'.ok
          /\ last'.err = "user already exists with provider"
          /\ last'.token = NoToken /\ last'.promoteToken = NoToken
          /\ users' = users]_vars

\* a callback from one provider failed on the account a promotion or a
\* first login attached to the other provider
C7_Witness ==
    /\ last.op = "HandleCallback" /\ ~last.ok
    /\ last.err = "user already exists with provider"
    /\ \E a \in users : /\ a.email = last.email /\ a.role = "user"
                        /\ a.provider \in Providers \ {last.provider}
                        /\ a.externalID # NULL

\* the callback step finds the identity's email on a local account
LinksLocal ==
    /\ last'.op = "HandleCallback"
    /\ \E a \in users : a.email = last'.email /\ a.provider = "local"

\* the callback succeeds for the local account under its id and adds no row
SignedInAsLocal(a) ==
    /\ last'.ok
    /\ ValidateToken(last'.token, last'.at) = Accepted(a.id, a.role)
    /\ nextID' = nextID

\* the store after the step holds a's row with the identity attached and is
\* otherwise unchanged; the password still logs in
LinkedTo(a) ==
    /\ users' = (users \ {a}) \cup {[a EXCEPT !.provider = last'.provider,
                                              !.externalID = last'.externalID]}
    /\ \A p \in Passwords :
          CompareHashAndPassword(a.passwordHash, p)
              => Login(users', a.email, p, clock', TRUE).ok

\* C8 as stated: a callback whose identity's email belongs to a local account
\* succeeds, creates no second account, keeps the account's id, role and
\* password, sets its provider and external id to the identity's, returns a
\* token for the account's id, and Login with the password still succeeds.
C8_LinkAlwaysAttaches ==
    [][LinksLocal
       => \A a \in users :
            (a.email = last'.email) => (SignedInAsLocal(a) /\ LinkedTo(a))]_vars

\* C8 amended: the same, provided the link write succeeds; when it fails
\* (the identity's pair is attached to another account, or the store refuses
\* the update) the callback still succeeds with a token for the account's id
\* and the store stays as it was.
C8_LinkAttachesIfWritten ==
    [][LinksLocal
       => \A a \in users :
            (a.email = last'.email)
                => /\ SignedInAsLocal(a)
                   /\ IF "link" \in last'.warned THEN users' = users ELSE LinkedTo(a)]_vars

\* a registered account got an identity attached and kept its password
C8_Witness ==
    /\ last.op = "HandleCallback" /\ last.ok /\ last.branch = "email"
    /\ "link" \notin last.warned
    /\ \E a \in users : /\ a.email = last.email /\ a.id = last.user.id
                        /\ a.role = "user"
                        /\ a.passwordHash \in {BcryptHash(p) : p \in Passwords}
                        /\ a.provider = last.provider
                        /\ a.externalID = last.externalID

\* C14: a registration whose email already belongs to an account is
\* answered with 409 and the message that the email already exists, and
\* creates no account.
C14_RegisterConflictIs409 ==
    [][\A e \in Emails, p \in Passwords :
          (RegisterCall(e, p) /\ HasUserByEmail(users, e)) =>
              /\ last'.status = 409
              /\ last'.body = "user with this email already exists"
              /\ users' = users]_vars

\* a registration with a taken email was answered with 500
C14_Witness ==
    /\ last.op = "Register" /\ ~last.ok
    /\ last.err = "user with this email already exists"
    /\ HasUserByEmail(users, last.email)
    /\ last.status = 500 /\ last.body = "Registration failed"

\* C15: a login whose email is unknown or whose password is wrong is
\* answered with 401 and the message invalid email or password.
C15_LoginFailureIs401 ==
    [][\A e \in Emails, p \in Passwords, lastLoginOK \in BOOLEAN :
          (/\ LoginCall(e, p, lastLoginOK)
           /\ \/ ~HasUserByEmail(users, e)
              \/ /\ GetUserByEmail(users, e).passwordHash # NULL
                 /\ ~CompareHashAndPassword(GetUserByEmail(users, e).passwordHash, p)) =>
              /\ last'.status = 401
              /\ last'.body = "invalid email or password"]_vars

\* a login with the wrong password of a registered account was answered
\* with 500
C15_Witness ==
    /\ last.op = "Login" /\ ~last.ok
    /\ HasUserByEmail(users, last.email)
    /\ GetUserByEmail(users, last.email).passwordHash # NULL
    /\ last.err = "invalid email or password"
    /\ last.status = 500 /\ last.body = "Login failed"

\* the email, provider, external id and role of account u are the same after
\* the step
IdentityKept(u) ==
    \E v \in users' :
        /\ v.id = u.id /\ v.email = u.email /\ v.provider = u.provider
        /\ v.externalID = u.externalID /\ v.role = u.role

\* C17: the guest id of the OAuth state affects guest accounts only: the
\* promotion branch of a callback leaves the email, provider, external id
\* and role of every account unchanged that is not a guest account (role
\* guest, no email) at the moment of the update.
C17_PromotionRewritesGuestsOnly ==
    [][(last'.op = "HandleCallback" /\ last'.branch = "promote") =>
          \A u \in users :
              ~(u.role = "guest" /\ u.email = NULL) => IdentityKept(u)]_vars

\* the promotion branch rewrote an account that holds a password: the state
\* named a registered account, which now carries the email of the identity
C17_Witness ==
    /\ last.op = "HandleCallback" /\ last.branch = "promote" /\ last.ok
    /\ HasUserByID(users, last.guestID)
    /\ GetUserByID(users, last.guestID).passwordHash # NULL
    /\ GetUserByID(users, last.guestID).email = last.email
    /\ GetUserByID(users, last.guestID).provider = last.provider

\* the kinds of account: local, OAuth and guest
IsLocalAccount(u) == u.email # NULL /\ u.passwordHash # NULL

IsOAuthAccount(u) ==
    /\ u.email # NULL /\ u.passwordHash = NULL
    /\ u.provider # NULL /\ u.externalID # NULL

IsGuestAccount(u) == u.email = NULL /\ u.provider = NULL /\ u.externalID = NULL

\* the kinds account u is of
KindsOf(u) ==
    {k \in {"local", "oauth", "guest"} :
        \/ k = "local" /\ IsLocalAccount(u)
        \/ k = "oauth" /\ IsOAuthAccount(u)
        \/ k = "guest" /\ IsGuestAccount(u)}

\* C18: in every reachable state of the store every account is of exactly
\* one kind: local (email and password), OAuth (email, no password, provider
\* and external id) or guest (no email, no provider, no external id).
C18_ExactlyOneKind == \A u \in users : Cardinality(KindsOf(u)) = 1

\* a callback created an OAuth account next to a registered account that an
\* earlier callback linked to a provider
C18_Witness ==
    /\ last.op = "HandleCallback" /\ last.branch = "create" /\ last.ok
    /\ IsOAuthAccount(last.user) /\ last.user \in users
    /\ \E u \in users : IsLocalAccount(u) /\ u.provider \in Providers

\* accounts a and b carry the same provider and external id, both present
SamePair(a, b) ==
    /\ a.provider # NULL /\ a.externalID # NULL
    /\ a.provider = b.provider /\ a.externalID = b.externalID

\* C19: in every reachable state no two distinct accounts carry the same
\* (provider, external id) pair where both are present; a callback that
\* would attach a used pair to a second account, by link, promotion or
\* creation, does not produce such a state.
C19_PairUnique ==
    \A a, b \in users : SamePair(a, b) => a = b

\* a callback presented an identity whose pair another account carries, with
\* an email of its own: the write was refused and the pair stays with the one
\* account
C19_Witness ==
    /\ last.op = "HandleCallback"
    /\ \/ ~last.ok /\ last.branch \in {"create", "promote"}
       \/ "link" \in last.warned
    /\ \E a \in users :
          /\ a.provider = last.provider /\ a.externalID = last.externalID
          /\ a.email # last.email

\* the OAuth login was started with the valid token of a guest account
StartedByGuest ==
    /\ last.op = "OAuthLogin" /\ last.holder # 0
    /\ HasUserByID(users, last.holder)
    /\ GetUserByID(users, last.holder).role = "guest"
    /\ AuthMiddleware(HolderHeader(users, last.holder, last.at), last.at).handlerCalls = 1

\* C16: an OAuth login started with a valid guest token generates a state
\* that carries the id of that guest, so that the callback promotes that
\* account.
C16_StateCarriesGuestID ==
    StartedByGuest =>
        /\ last.state = BuildState(last.provider, last.holder)
        /\ parseStateForGuestID(last.state) = last.holder

\* an OAuth login started with a valid guest token got the state of no guest
C16_Witness ==
    /\ StartedByGuest
    /\ last.status = 307
    /\ parseStateForGuestID(last.state) = 0

\* the callback found the identity's email on a local account and its link
\* write failed
LinkFailed ==
    /\ last.op = "HandleCallback" /\ last.branch = "email"
    /\ "link" \in last.warned

\* C22: when the link write fails in the email-match branch for a local
\* account, the callback still succeeds with a token for the existing
\* account, the stored account keeps the provider local and no external id,
\* and the account returned to the caller is that unlinked account.
C22_LinkFailureReturnsUnlinked ==
    LinkFailed =>
        /\ last.ok
        /\ HasUserByEmail(users, last.email)
        /\ LET a == GetUserByEmail(users, last.email)
           IN  /\ ValidateToken(last.token, last.at) = Accepted(a.id, a.role)
               /\ a.provider = "local" /\ a.externalID = NULL
               /\ last.user = a

\* the link write failed and the account returned carries the provider and
\* the external id of the identity, which the stored account does not
C22_Witness ==
    /\ LinkFailed /\ last.ok
    /\ GetUserByEmail(users, last.email).provider = "local"
    /\ GetUserByEmail(users, last.email).externalID = NULL
    /\ last.user.id = GetUserByEmail(users, last.email).id
    /\ last.user.provider = last.provider
    /\ last.user.externalID = last.externalID

\* the callback step carries a guest id in its state while the email of the
\* identity belongs to an account
EmailMatchWithGuestID ==
    /\ last'.op = "HandleCallback"
    /\ last'.guestID > 0
    /\ HasUserByEmail(users, last'.email)

\* the guest account the state names is in the store after the step as it
\* was before
GuestUntouched ==
    \A g \in users :
        (g.id = last'.guestID /\ g.role = "guest") =>
            /\ g \in users'
            /\ g.email = NULL /\ g.provider = NULL /\ g.externalID = NULL

\* the callback signs in the account that holds the identity's email
SignsInExisting ==
    /\ last'.ok
    /\ ValidateToken(last'.token, last'.at) =
          Accepted(GetUserByEmail(users, last'.email).id,
                   GetUserByEmail(users, last'.email).role)

\* the account that holds the email is attached to another provider than the
\* identity's
OtherProvider ==
    LET a == GetUserByEmail(users, last'.email)
    IN  a.provider # NULL /\ a.provider # "local" /\ a.provider # last'.provider

\* C23 as stated: when the identity's email matches an account and the state
\* carries a guest id, the callback logs in the existing account and leaves
\* the guest account of the state unchanged.
C23_EmailMatchAlwaysLogsIn ==
    [][EmailMatchWithGuestID => (SignsInExisting /\ GuestUntouched)]_vars

\* C23 amended: the same, unless the existing account is attached to another
\* provider; then the callback fails without a token and the store, the
\* guest account included, stays as it was. In no case is the guest promoted.
C23_EmailMatchBeforePromotion ==
    [][EmailMatchWithGuestID =>
          /\ last'.branch = "email"
          /\ GuestUntouched
          /\ IF OtherProvider
             THEN ~last'.ok /\ last'.token = NoToken /\ users' = users
             ELSE SignsInExisting]_vars

\* a callback whose state named a guest account logged in the account that
\* held the email, and the guest is still a guest
C23_Witness ==
    /\ last.op = "HandleCallback" /\ last.branch = "email" /\ last.ok
    /\ last.guestID > 0 /\ last.user.id # last.guestID
    /\ \E g \in users : /\ g.id = last.guestID /\ g.role = "guest"
                        /\ g.email = NULL /\ g.provider = NULL

\* the callback step carries the id of no account in its state and the
\* email of the identity belongs to no account
GuestMissing ==
    /\ last'.op = "HandleCallback"
    /\ last'.guestID > 0
    /\ ~HasUserByEmail(users, last'.email)
    /\ ~HasUserByID(users, last'.guestID)

\* C24: a callback with no email match and a guest id that resolves to no
\* account fails with the guest-not-found error, issues no token, and
\* creates and modifies no account.
C24_MissingGuestFails ==
    [][GuestMissing =>
          /\ ~last'.ok
          /\ last'.err = "failed to find guest user"
          /\ last'.token = NoToken /\ last'.promoteToken = NoToken
          /\ last'.status = 500
          /\ users' = users
          /\ nextID' = nextID]_vars

\* a callback named a guest id no account has, with an unused email, and
\* failed; no account carries the email
C24_Witness ==
    /\ last.op = "HandleCallback" /\ last.branch = "promote" /\ ~last.ok
    /\ last.err = "failed to find guest user"
    /\ last.guestID > 0 /\ ~HasUserByID(users, last.guestID)
    /\ ~HasUserByEmail(users, last.email)

\* the callback step carries no guest id (its state is absent, unparsable or
\* names the id 0) and the email of the identity belongs to no account
CreatesAccount ==
    /\ last'.op = "HandleCallback"
    /\ ~(last'.guestID > 0)
    /\ ~HasUserByEmail(users, last'.email)

\* one account is added, made from the identity, and the token maps to it
AccountCreated ==
    /\ last'.ok
    /\ \E a \in users' :
          /\ a \notin users
          /\ users' = users \cup {a}
          /\ ~HasUserByID(users, a.id)
          /\ a.email = last'.email
          /\ a.provider = last'.provider
          /\ a.externalID = last'.externalID
          /\ a.role = "user"
          /\ a.passwordHash = NULL
          /\ a.avatarKey = NULL
          /\ ValidateToken(last'.token, last'.at) = Accepted(a.id, "user")

LastLoginFailed ==
    /\ last.op \in {"Login", "GuestLogin", "HandleCallback"}
    /\ last.warned = {"lastLogin"}

\* the account the call is for: the one that holds the email for Login and
\* the email-match branch, the guest of the state for a promotion, the
\* account just created for GuestLogin
AccountOfCall ==
    IF last.op = "HandleCallback" /\ last.branch = "promote"
    THEN GetUserByID(users, last.guestID)
    ELSE IF last.op = "GuestLogin"
    THEN GetUserByID(users, nextID - 1)
    ELSE GetUserByEmail(users, last.email)

\* C26: a failure of the last-login write does not change the outcome of
\* Login, GuestLogin, PromoteGuestToUser or the email-match branch of the
\* callback: the call succeeds and returns a valid token for the same
\* account.
C26_LastLoginFailureTolerated ==
    LastLoginFailed =>
        /\ last.ok /\ last.err = ""
        /\ last.status \in {200, 307}
        /\ last.user.id = AccountOfCall.id
        /\ ValidateToken(last.token, last.at) =
              Accepted(AccountOfCall.id, AccountOfCall.role)
        /\ (last.op = "HandleCallback" /\ last.branch = "promote") =>
              ValidateToken(last.promoteToken, last.at) =
                  Accepted(AccountOfCall.id, AccountOfCall.role)

\* a Login with the right password succeeded although its last-login write
\* failed
C26_Witness ==
    /\ last.op = "Login" /\ last.warned = {"lastLogin"} /\ last.ok
    /\ CompareHashAndPassword(GetUserByEmail(users, last.email).passwordHash,
                              last.password)
    /\ ValidateToken(last.token, last.at).ok

\* the identity of the callback step has a display name and an avatar URL
HasNameAndAvatar ==
    /\ ProfileName(last'.externalID) # ""
    /\ ProfileAvatarURL(last'.externalID) # ""

\* C27: after a successful guest promotion with an identity that has a
\* display name and an avatar URL, the stored account carries the identity's
\* name and an avatar reference set from the identity's avatar.
C27_PromotionStoresNameAndAvatar ==
    [][(PromotesGuest /\ last'.ok /\ HasNameAndAvatar) =>
          \E a \in users' :
              /\ a.id = last'.guestID
              /\ a.name = ProfileName(last'.externalID)
              /\ a.avatarKey # NULL]_vars

\* a guest was promoted with an identity that has a name and an avatar URL;
\* the stored account has the name and no avatar
C27_Witness ==
    /\ last.op = "HandleCallback" /\ last.branch = "promote" /\ last.ok
    /\ ProfileName(last.externalID) # "" /\ ProfileAvatarURL(last.externalID) # ""
    /\ GetUserByID(users, last.guestID).passwordHash = NULL
    /\ GetUserByID(users, last.guestID).name = ProfileName(last.externalID)
    /\ GetUserByID(users, last.guestID).avatarKey = NULL

\* the callback step got a Google response that reports the email as
\* unverified
UnverifiedGoogle ==
    /\ last'.op \in {"getUserInfo", "HandleCallback"}
    /\ last'.provider = "google"
    /\ ~last'.verified

\* C28: a Google callback whose user info reports the email as unverified
\* fails before any account matching: no account is looked up by the email,
\* linked, promoted or created, and no token is issued.
C28_UnverifiedEmailRefused ==
    [][UnverifiedGoogle =>
          /\ last'.op = "getUserInfo" /\ last'.branch = ""
          /\ ~last'.ok /\ last'.status = 500
          /\ last'.token = NoToken /\ last'.promoteToken = NoToken
          /\ users' = users
          /\ nextID' = nextID]_vars

\* a Google callback with an unverified email that belongs to a registered
\* account failed; the account is not linked
C28_Witness ==
    /\ last.op = "getUserInfo" /\ last.provider = "google" /\ ~last.verified
    /\ ~last.ok /\ last.token = NoToken
    /\ HasUserByEmail(users, last.email)
    /\ GetUserByEmail(users, last.email).provider = "local"
    /\ GetUserByEmail(users, last.email).externalID = NULL

\* the ids of the administrator accounts of a store
AdminIDs(us) == {u.id : u \in {r \in us : r.role = "admin"}}

\* C29: no operation of the subsystem creates an administrator account or
\* raises an account to administrator: the administrator accounts after any
\* step are among those before it, hence among the initial ones, and every
\* token issued for another account carries another role.
C29_NoPrivilegeEscalation ==
    [][/\ AdminIDs(users') \subseteq AdminIDs(users)
       /\ (last'.ok /\ last'.token # NoToken) =>
             (ValidateToken(last'.token, last'.at).role = "admin"
                 => ValidateToken(last'.token, last'.at).userID \in AdminIDs(users))]_vars

\* the administrator signed in through a provider and had the identity
\* linked: the account is still the one administrator, next to another
\* account
C29_Witness ==
    /\ last.op = "HandleCallback" /\ last.branch = "email" /\ last.ok
    /\ "link" \notin last.warned
    /\ last.user.role = "admin"
    /\ AdminIDs(users) = {AdminRow.id}
    /\ GetUserByID(users, AdminRow.id).provider = last.provider
    /\ \E u \in users : u.role # "admin"

\* the callback step succeeds for an identity whose email belongs to account
\* a, which is attached to a provider
SignsInAttached(a) ==
    /\ last'.op = "HandleCallback" /\ last'.ok
    /\ a \in users /\ a.email = last'.email
    /\ a.provider # NULL /\ a.provider # "local"
    /\ ValidateToken(last'.token, last'.at).ok
    /\ ValidateToken(last'.token, last'.at).userID = a.id

\* C30: a callback issues a token for an existing account attached to a
\* provider only if the identity's (provider, external id) pair equals the
\* pair stored on the account.
C30_TokenOnlyForStoredPair ==
    [][\A a \in users :
          SignsInAttached(a) =>
              /\ a.provider = last'.provider
              /\ a.externalID = last'.externalID]_vars

\* an identity was signed in as an account of the same provider and email
\* whose stored external id is another one
C30_Witness ==
    /\ last.op = "HandleCallback" /\ last.branch = "email" /\ last.ok
    /\ HasUserByEmail(users, last.email)
    /\ GetUserByEmail(users, last.email).passwordHash = NULL
    /\ GetUserByEmail(users, last.email).provider = last.provider
    /\ GetUserByEmail(users, last.email).externalID # last.externalID
    /\ ValidateToken(last.token, last.at).userID = GetUserByEmail(users, last.email).id

-----------------------------------------------------------------------------
(* Properties of tokens and of the middleware, checked under SpecTok *)

\* C3: a token issued at instant t carries notBefore = t and expiresAt =
\* t + 24 hours; ValidateToken accepts it at every instant from notBefore up
\* to, not including, expiresAt, and rejects it from expiresAt on.
C3_TokenWindow ==
    /\ [][(tok' # tok) => /\ tok'.claims.nbf = clock
                          /\ tok'.claims.exp = clock + 24]_vars
    /\ []((obs.kind = "validate" /\ obs.token = tok /\ tok # NoToken)
            => (obs.res.ok <=> (tok.claims.nbf <= obs.at /\ obs.at < tok.claims.exp)))

\* the token issued at hour 1 is rejected at the instant it expires
C3_Witness ==
    /\ obs.kind = "validate" /\ obs.token = tok /\ tok # NoToken
    /\ tok.claims.nbf = 1
    /\ obs.at = tok.claims.exp
    /\ ~obs.res.ok

\* C4: ValidateToken accepts a token string only if its method is of the HMAC
\* family and its signature is the MAC of its header and payload under the
\* configured secret: an altered signature, a signature under another
\* secret, and the methods RS256 and none are rejected.
C4_OnlyConfiguredHMAC ==
    (obs.kind = "validate") =>
        /\ obs.res.ok => /\ obs.token.alg \in {"HS256", "HS384", "HS512"}
                         /\ obs.token.sig = HMAC(JwtSecret, obs.token.alg, obs.token.claims)
        /\ (\/ obs.token.sig.flip # 0
            \/ obs.token.sig.key # JwtSecret
            \/ obs.token.alg \in {"RS256", "none"}) => ~obs.res.ok

\* inside its validity window, the issued token re-signed under another
\* secret with the claims of the administrator is rejected
C4_Witness ==
    /\ obs.kind = "validate" /\ tok # NoToken /\ ~obs.res.ok
    /\ obs.token = [alg |-> "HS256", claims |-> Escalated(tok.claims),
                    sig |-> HMAC(OtherSecret, "HS256", Escalated(tok.claims))]
    /\ tok.claims.role = "guest"
    /\ tok.claims.nbf <= obs.at /\ obs.at < tok.claims.exp

\* the header is exactly the word Bearer, one space and a token string
IsBearer(h) ==
    /\ Len(h) = 3
    /\ h[1] = Word("Bearer") /\ h[2] = Space /\ h[3].kind = "token"

\* the header is Bearer <token> with a token ValidateToken accepts at instant t
BearsValidToken(h, t) == IsBearer(h) /\ ValidateToken(h[3].token, t).ok

\* the identity ValidateToken reads from the token of a Bearer header
BearerIdentity(h, t) ==
    Identity(ValidateToken(h[3].token, t).userID, ValidateToken(h[3].token, t).role)

\* C9: behind the Required middleware the handler runs only when the
\* Authorization header is exactly Bearer <token> and the token is valid;
\* in every other case the response is 401 and the handler does not run.
C9_RequiredRunsOnlyAuthenticated ==
    (obs.kind = "required") =>
        IF BearsValidToken(obs.header, obs.at)
        THEN /\ obs.res.handlerCalls = 1
             /\ obs.res.ctx = BearerIdentity(obs.header, obs.at)
        ELSE /\ obs.res.status = 401
             /\ obs.res.handlerCalls = 0

\* a Bearer header carrying the issued token after its expiry got a 401
C9_Witness ==
    /\ obs.kind = "required" /\ tok # NoToken
    /\ obs.header = <<Word("Bearer"), Space, TokenSym(tok)>>
    /\ obs.at >= tok.claims.exp
    /\ obs.res.status = 401 /\ obs.res.handlerCalls = 0

\* C10: behind the Optional middleware the handler runs exactly once for
\* every request; it sees no identity when the header is missing, malformed
\* or carries an invalid token, and exactly the identity the Required
\* middleware attaches when the token is valid.
C10_OptionalAlwaysRuns ==
    (obs.kind = "optional") =>
        /\ obs.res.handlerCalls = 1
        /\ IF BearsValidToken(obs.header, obs.at)
           THEN /\ obs.res.ctx.set
                /\ obs.res.ctx = AuthMiddleware(obs.header, obs.at).ctx
           ELSE obs.res.ctx = NoIdentity

\* a Bearer header with a forged token reached the handler without identity
C10_Witness ==
    /\ obs.kind = "optional" /\ tok # NoToken
    /\ IsBearer(obs.header)
    /\ obs.header[3].token.sig.key = OtherSecret
    /\ obs.res.handlerCalls = 1 /\ obs.res.ctx = NoIdentity

\* the response of the Required middleware to a request without the header
MissingHeaderRejection == AuthMiddleware(<<>>, 0)

\* C11: every rejection by the Required middleware is the same response,
\* status and body, whatever made the request unauthorized: a missing
\* header, a malformed one, an expired token or a forged one.
C11_UniformRejection ==
    (obs.kind = "required" /\ obs.res.handlerCalls = 0) =>
        /\ obs.res.status = MissingHeaderRejection.status
        /\ obs.res.body = MissingHeaderRejection.body

\* a Bearer header carrying the issued token after its expiry was rejected
\* with a body of its own
C11_Witness ==
    /\ obs.kind = "required" /\ tok # NoToken
    /\ obs.header = <<Word("Bearer"), Space, TokenSym(tok)>>
    /\ obs.at >= tok.claims.exp
    /\ obs.res.handlerCalls = 0
    /\ obs.res.status = MissingHeaderRejection.status
    /\ obs.res.body # MissingHeaderRejection.body

-----------------------------------------------------------------------------
(* Properties of the role gates, checked under SpecGate *)

\* the request carried a token AuthMiddleware accepted
PassedRequired == AuthMiddleware(obs.header, obs.at).handlerCalls = 1

\* the identity AuthMiddleware put into the context of the request
RequestIdentity == AuthMiddleware(obs.header, obs.at).ctx

\* the gate's read of the account of the request succeeded
AccountRead == obs.storeOK /\ HasUserByID(users, RequestIdentity.userID)

\* the role the store holds for the account of the request
StoredRole == GetUserByID(users, RequestIdentity.userID).role

\* C12: RequireAdmin decides on the role stored at the time of the request,
\* not on the role claim of the token: a still-valid token issued before the
\* stored role changed is rejected with 403 when the account is no longer an
\* administrator and admitted when it has become one.
C12_GateFollowsStoredRole ==
    (obs.kind = "admin" /\ PassedRequired /\ AccountRead
        /\ RequestIdentity.role # StoredRole) =>
        IF StoredRole = "admin"
        THEN obs.res.handlerCalls = 1
        ELSE obs.res.handlerCalls = 0 /\ obs.res.status = 403

\* the administrator's token, presented after the account was made a plain
\* user, was refused by RequireAdmin
C12_Witness ==
    /\ obs.kind = "admin" /\ tok # NoToken
    /\ obs.header = <<Word("Bearer"), Space, TokenSym(tok)>>
    /\ tok.claims.role = "admin"
    /\ AccountRead /\ StoredRole = "user"
    /\ obs.res.handlerCalls = 0 /\ obs.res.status = 403

\* C13: for a request that passed the Required middleware, the handler
\* behind RequireAdmin runs exactly when the account of the token is read
\* from the store and its role is admin, and the handler behind RequireAuth
\* runs exactly when the account is read and its role is user, admin or
\* guest; a missing account and a store error keep the handler from running.
C13_GatesAdmitByStoredAccount ==
    (obs.kind \in {"admin", "auth"} /\ PassedRequired) =>
        /\ obs.res.handlerCalls \in {0, 1}
        /\ obs.res.handlerCalls = 1 <=>
              /\ AccountRead
              /\ StoredRole \in (IF obs.kind = "admin" THEN {"admin"}
                                 ELSE {"user", "admin", "guest"})

\* a valid token whose account is no longer in the store did not get past
\* RequireAuth
C13_Witness ==
    /\ obs.kind = "auth" /\ tok # NoToken
    /\ obs.header = <<Word("Bearer"), Space, TokenSym(tok)>>
    /\ PassedRequired /\ obs.storeOK
    /\ ~HasUserByID(users, tok.claims.user_id)
    /\ obs.res.handlerCalls = 0 /\ obs.res.status = 500

-----------------------------------------------------------------------------
(* Properties of concurrent calls, checked under SpecRace *)

\* no two accounts carry the same email
EmailsUnique ==
    \A a, b \in users : (a.email # NULL /\ a.email = b.email) => a = b

\* every account is whole: of exactly one kind, and a guest by its role
\* exactly when it carries no email, provider or external id
AccountsWhole ==
    \A u \in users :
        /\ Cardinality(KindsOf(u)) = 1
        /\ u.role = "guest" <=> IsGuestAccount(u)

\* the call of p executes its INSERT or its promoting UPDATE in this step
\* while an account other than the one it writes holds its email: it found
\* the email free at its lookup and has lost the race since
LosesRace(p) ==
    /\ calls[p].pc \in {"create", "promoteWrite"}
    /\ calls'[p].pc = "done"
    /\ calls[p].email # NULL
    /\ \E r \in users :
          /\ r.email = calls[p].email
          /\ calls[p].pc = "promoteWrite" => r.id # calls[p].user.id

\* C20: under every interleaving of Register calls, OAuth callbacks and
\* guest promotions no two accounts carry the same email, and a call that
\* loses the race for an email fails and leaves the store as it was: no
\* second account and no half-promoted guest.
C20_EmailUniqueUnderRaces ==
    /\ [](EmailsUnique /\ AccountsWhole)
    /\ [][\A p \in Procs :
             LosesRace(p) => (~calls'[p].ok /\ users' = users)]_vars

\* two calls for the same email were in progress at the same time: both
\* passed the lookup, one wrote the account and the other failed at its
\* write, and one account carries the email
C20_Witness ==
    /\ calls["c1"].pc = "done" /\ calls["c2"].pc = "done"
    /\ calls["c1"].email # NULL /\ calls["c1"].email = calls["c2"].email
    /\ calls["c1"].ok /\ ~calls["c2"].ok
    /\ calls["c2"].err \in {"failed to create user", "failed to promote guest"}
    /\ Cardinality({u \in users : u.email = calls["c1"].email}) = 1

\* C21: when two Register calls for the same unused email both pass the
\* lookup before either inserts, one creates the account and the other fails
\* with the duplicate-email error a sequential second registration gets.
C21_RaceLoserGetsDuplicateEmail ==
    [][\A p \in Procs :
          (calls[p].op = "Register" /\ LosesRace(p)) =>
              /\ ~calls'[p].ok
              /\ calls'[p].err = "user with this email already exists"
              /\ users' = users]_vars

\* two registrations of one email were in progress together; one created the
\* account and the other returned the creation failure
C21_Witness ==
    /\ calls["c1"].op = "Register" /\ calls["c2"].op = "Register"
    /\ calls["c1"].pc = "done" /\ calls["c2"].pc = "done"
    /\ calls["c1"].email = calls["c2"].email
    /\ calls["c1"].ok /\ ~calls["c2"].ok
    /\ calls["c2"].err = "failed to create user"
    /\ Cardinality({u \in users : u.email = calls["c1"].email}) = 1

=============================================================================
